---- MODULE Spec2Model ----
(***************************************************************************)
(* A model of tisk (src/lib/cli.js): main's handling of the -W options and *)
(* compile's planning, diagnostics gate, directory creation, emission and  *)
(* import-specifier rewriting.                                             *)
(*                                                                         *)
(* Paths and module specifiers are strings, modelled as sequences of       *)
(* one-character strings, so that startsWith, sort, text[0] and the path   *)
(* functions work on them as they do in the code.  Command-line words of   *)
(* the -W option are sequences of lexemes (a name, or the "=" sign).       *)
(***************************************************************************)
EXTENDS Integers, Sequences, FiniteSets, TLC

(***************************************************************************)
(* Strings                                                                 *)
(***************************************************************************)

\* The characters that occur in the model, in ascending UTF-16 code order.
Alphabet ==
  << ".", "/", "a", "b", "c", "d", "f", "g", "h", "k", "m", "n", "o", "r",
     "s", "t", "v", "w", "x", "y", "z" >>

CharCode(c) == CHOOSE n \in 1..Len(Alphabet) : Alphabet[n] = c

\* a < b in the order of Array.prototype.sort() without a comparator
RECURSIVE StrLess(_, _)
StrLess(a, b) ==
  IF b = <<>> THEN FALSE
  ELSE IF a = <<>> THEN TRUE
  ELSE IF a[1] = b[1] THEN StrLess(Tail(a), Tail(b))
  ELSE CharCode(a[1]) < CharCode(b[1])

RECURSIVE InsertSorted(_, _)
InsertSorted(x, s) ==
  IF s = <<>> THEN <<x>>
  ELSE IF StrLess(s[1], x) THEN <<s[1]>> \o InsertSorted(x, Tail(s))
  ELSE <<x>> \o s

\* Array.prototype.sort()
RECURSIVE Sort(_)
Sort(s) == IF s = <<>> THEN <<>> ELSE InsertSorted(s[1], Sort(Tail(s)))

\* Array.prototype.reverse()
Reverse(s) == [n \in 1..Len(s) |-> s[Len(s) + 1 - n]]

\* String.prototype.startsWith
StartsWith(s, prefix) ==
  Len(prefix) <= Len(s) /\ SubSeq(s, 1, Len(prefix)) = prefix

\* String.prototype.endsWith
EndsWith(s, suffix) ==
  Len(suffix) <= Len(s) /\ SubSeq(s, Len(s) - Len(suffix) + 1, Len(s)) = suffix

\* String.prototype.split(c)
RECURSIVE Split(_, _)
Split(s, c) ==
  IF \A n \in 1..Len(s) : s[n] # c THEN <<s>>
  ELSE LET k == CHOOSE n \in 1..Len(s) : s[n] = c /\ \A m \in 1..(n - 1) : s[m] # c
       IN  <<SubSeq(s, 1, k - 1)>> \o Split(SubSeq(s, k + 1, Len(s)), c)

\* Array.prototype.join(c)
RECURSIVE JoinWith(_, _)
JoinWith(parts, c) ==
  IF parts = <<>> THEN <<>>
  ELSE IF Len(parts) = 1 THEN parts[1]
  ELSE parts[1] \o <<c>> \o JoinWith(Tail(parts), c)

\* String.prototype.replace(/c/g, d)
ReplaceAll(s, c, d) == [n \in 1..Len(s) |-> IF s[n] = c THEN d ELSE s[n]]

\* undefined and the empty string: both are falsy, and no path is either
Undefined == <<>>

Truthy(s) == s # <<>>

\* obj[key] of a plain object used as a map
Lookup(obj, key) == IF key \in DOMAIN obj THEN obj[key] ELSE Undefined

\* obj[key] = value
Store(obj, key, value) == (key :> value) @@ obj

(***************************************************************************)
(* The path module (POSIX)                                                 *)
(***************************************************************************)

PathSep == "/"

Dot == <<".">>

DotDot == <<".", ".">>

\* process.cwd()
Cwd == <<"/">>

IsAbsolute(p) == p # <<>> /\ p[1] = PathSep

\* path.normalize's segment walk: drops "" and ".", resolves ".."
RECURSIVE NormalizeSegments(_, _, _)
NormalizeSegments(segs, acc, allowAboveRoot) ==
  IF segs = <<>> THEN acc
  ELSE LET s == segs[1]
           rest == Tail(segs)
       IN  IF s = <<>> \/ s = Dot THEN NormalizeSegments(rest, acc, allowAboveRoot)
           ELSE IF s = DotDot
                THEN IF acc # <<>> /\ acc[Len(acc)] # DotDot
                     THEN NormalizeSegments(rest, SubSeq(acc, 1, Len(acc) - 1), allowAboveRoot)
                     ELSE IF allowAboveRoot
                          THEN NormalizeSegments(rest, Append(acc, s), allowAboveRoot)
                          ELSE NormalizeSegments(rest, acc, allowAboveRoot)
                ELSE NormalizeSegments(rest, Append(acc, s), allowAboveRoot)

\* path.normalize
Normalize(p) ==
  IF p = <<>> THEN Dot
  ELSE LET abs == IsAbsolute(p)
           trailing == p[Len(p)] = PathSep
           body == JoinWith(NormalizeSegments(Split(p, PathSep), <<>>, ~abs), PathSep)
       IN  IF body = <<>>
           THEN IF abs THEN <<PathSep>> ELSE IF trailing THEN <<".", PathSep>> ELSE Dot
           ELSE (IF abs THEN <<PathSep>> ELSE <<>>) \o body
                \o (IF trailing THEN <<PathSep>> ELSE <<>>)

\* path.resolve of one argument
Resolve(p) ==
  LET full == IF IsAbsolute(p) THEN p ELSE Cwd \o <<PathSep>> \o p
  IN  <<PathSep>> \o JoinWith(NormalizeSegments(Split(full, PathSep), <<>>, FALSE), PathSep)

\* path.join of two arguments
Join(a, b) ==
  IF a = <<>> /\ b = <<>> THEN Dot
  ELSE IF a = <<>> THEN Normalize(b)
  ELSE IF b = <<>> THEN Normalize(a)
  ELSE Normalize(a \o <<PathSep>> \o b)

\* the segments of a resolved path
Segments(abs) == NormalizeSegments(Split(abs, PathSep), <<>>, FALSE)

RECURSIVE CommonPrefixLen(_, _)
CommonPrefixLen(a, b) ==
  IF a = <<>> \/ b = <<>> THEN 0
  ELSE IF a[1] = b[1] THEN 1 + CommonPrefixLen(Tail(a), Tail(b))
  ELSE 0

\* path.relative
Relative(from, to) ==
  LET f == Segments(Resolve(from))
      t == Segments(Resolve(to))
      n == CommonPrefixLen(f, t)
      ups == [k \in 1..(Len(f) - n) |-> DotDot]
  IN  IF f = t THEN <<>>
      ELSE JoinWith(ups \o SubSeq(t, n + 1, Len(t)), PathSep)

\* a path without its trailing separators (the root stays)
RECURSIVE StripTrailingSep(_)
StripTrailingSep(p) ==
  IF Len(p) > 1 /\ p[Len(p)] = PathSep
  THEN StripTrailingSep(SubSeq(p, 1, Len(p) - 1))
  ELSE p

\* the last index of character c in s, 0 when there is none
LastIndexOf(s, c) ==
  IF \A n \in 1..Len(s) : s[n] # c THEN 0
  ELSE CHOOSE n \in 1..Len(s) : s[n] = c /\ \A m \in (n + 1)..Len(s) : s[m] # c

\* path.dirname
Dirname(p) ==
  LET q == StripTrailingSep(p)
      k == LastIndexOf(q, PathSep)
  IN  IF k = 0 THEN Dot
      ELSE IF k = 1 THEN <<PathSep>>
      ELSE SubSeq(q, 1, k - 1)

\* path.basename(p)
Basename(p) ==
  LET q == StripTrailingSep(p)
      k == LastIndexOf(q, PathSep)
  IN  SubSeq(q, k + 1, Len(q))

\* path.extname
Extname(p) ==
  LET b == Basename(p)
      k == LastIndexOf(b, ".")
  IN  IF k <= 1 \/ b = DotDot THEN <<>> ELSE SubSeq(b, k, Len(b))

\* path.basename(p, ext)
BasenameExt(p, ext) ==
  LET b == Basename(p)
  IN  IF ext # <<>> /\ b # ext /\ EndsWith(b, ext)
      THEN SubSeq(b, 1, Len(b) - Len(ext))
      ELSE b

(***************************************************************************)
(* Diagnostics and the -W options (getWarning, processDiagnostics, main)   *)
(***************************************************************************)

warningToOption ==
  ("strict" :> "strict") @@ ("implicit-any" :> "noImplicitAny")
  @@ ("implicit-returns" :> "noImplicitReturns")
  @@ ("implicit-this" :> "noImplicitThis")
  @@ ("implicit-fallthrough" :> "noFallthroughCasesInSwitch")
  @@ ("unused-locals" :> "noUnusedLocals")
  @@ ("unused-parameters" :> "noUnusedParameters")

strictWarnings == <<"implicit-any", "implicit-this">>

optionToWarning ==
  [o \in {warningToOption[w] : w \in DOMAIN warningToOption}
     |-> CHOOSE w \in DOMAIN warningToOption : warningToOption[w] = o]

\* A diagnostic is [category, code, message]; the message is the set of the
\* patterns of getWarning that it matches.
NoWarning == [kind |-> "undefined", names |-> <<>>]

OneWarning(name) == [kind |-> "string", names |-> <<name>>]

getWarning(diagnostic) ==
  LET m == diagnostic.message
  IN  IF diagnostic.category # "Error" THEN NoWarning
      ELSE IF "implicitly" \in m /\ "'any'" \in m
           THEN OneWarning(IF "'this'" \in m THEN "implicit-this" ELSE "implicit-any")
      ELSE IF "fallthrough" \in m THEN OneWarning("implicit-fallthrough")
      ELSE IF "never used" \in m \/ "unused" \in m
           THEN OneWarning(IF "parameter" \in m THEN "unused-parameters" ELSE "unused-locals")
      ELSE IF "never read" \in m
           THEN IF "property" \in m THEN OneWarning("unused-locals")
                ELSE [kind |-> "array", names |-> <<"unused-locals", "unused-parameters">>]
      ELSE IF diagnostic.code = 7030 THEN OneWarning("implicit-returns")
      ELSE OneWarning("")

\* the truthiness of getWarning's result
IsWarning(diagWarning) ==
  \/ diagWarning.kind = "array"
  \/ diagWarning.kind = "string" /\ diagWarning.names[1] # ""

\* one iteration of processDiagnostics' loop: is the diagnostic an error?
IsError(diagnostic, warns, werr) ==
  LET diagWarning == getWarning(diagnostic)
      error == werr \/ ~IsWarning(diagWarning)
  IN  IF IsWarning(diagWarning) /\ ~error
      THEN IF diagWarning.kind = "array"
           THEN \A n \in 1..Len(diagWarning.names) :
                  /\ diagWarning.names[n] \in DOMAIN warns
                  /\ warns[diagWarning.names[n]]
           ELSE /\ diagWarning.names[1] \in DOMAIN warns
                /\ warns[diagWarning.names[1]]
      ELSE error

RECURSIVE processDiagnostics(_, _, _)
processDiagnostics(diags, warns, werr) ==
  IF diags = <<>> THEN [warnings |-> 0, errors |-> 0]
  ELSE LET c == processDiagnostics(SubSeq(diags, 1, Len(diags) - 1), warns, werr)
       IN  IF IsError(diags[Len(diags)], warns, werr)
           THEN [c EXCEPT !.errors = @ + 1]
           ELSE [c EXCEPT !.warnings = @ + 1]

\* warnings[name] = parts.length == 2, evaluated after parts.pop()
Elevated(partsAfterPop) == Len(partsAfterPop) = 2

\* one iteration of main's loop over args.warning without "error"
ParseWarning(st, warning) ==
  LET parts == Split(warning, "=")
  IN  IF Len(parts) > 2 \/ (Len(parts) = 2 /\ parts[1] # <<"error">>)
      THEN [st EXCEPT !.error = <<"Invalid warning option", warning>>]
      ELSE LET name == parts[Len(parts)]
               popped == SubSeq(parts, 1, Len(parts) - 1)
           IN  IF ~(Len(name) = 1 /\ name[1] \in DOMAIN warningToOption)
               THEN [st EXCEPT !.error = <<"Unknown warning option", warning>>]
               ELSE [st EXCEPT !.compilerOptions = @ \cup {warningToOption[name[1]]},
                               !.warnings = Store(@, name[1], Elevated(popped))]

RECURSIVE ParseWarnings(_, _)
ParseWarnings(st, ws) ==
  IF ws = <<>> \/ st.error # <<>> THEN st
  ELSE ParseWarnings(ParseWarning(st, ws[1]), Tail(ws))

\* Array.prototype.filter((w) => w != "error")
RECURSIVE WithoutError(_)
WithoutError(ws) ==
  IF ws = <<>> THEN <<>>
  ELSE (IF ws[1] = <<"error">> THEN <<>> ELSE <<ws[1]>>) \o WithoutError(Tail(ws))

\* the warnings that strict stands for take strict's value when not named
RECURSIVE ApplyStrict(_, _)
ApplyStrict(warns, names) ==
  IF names = <<>> \/ "strict" \notin DOMAIN warns THEN warns
  ELSE ApplyStrict(IF names[1] \in DOMAIN warns THEN warns
                   ELSE Store(warns, names[1], warns["strict"]),
                   Tail(names))

\* main's warnings table and werror from args.warning and the tsconfig options
MainWarnings(argWarning, options) ==
  LET fromConfig == [w \in {optionToWarning[o] : o \in options \cap DOMAIN optionToWarning}
                       |-> FALSE]
      st == ParseWarnings([warnings |-> fromConfig, compilerOptions |-> options,
                           error |-> <<>>],
                          WithoutError(argWarning))
  IN  [st EXCEPT !.warnings = ApplyStrict(@, strictWarnings)]

MainWerror(argWarning) == \E n \in 1..Len(argWarning) : argWarning[n] = <<"error">>

(***************************************************************************)
(* The world of a run: the source tree, the command lines, the engine      *)
(***************************************************************************)

\* the longest list of input paths, and of -W options, of a run
MaxRoots == 2

MaxWarnArgs == 2

SeqsUpTo(S, n) == UNION {[1..k -> S] : k \in 1..n}

\* The source files on disk.
FileRAF == <<"/", "r", "/", "a", "/", "f", ".", "t", "s">>

FileRABF == <<"/", "r", "/", "a", "/", "b", "/", "f", ".", "t", "s">>

FileRAX == <<"/", "r", "/", "a", "/", "x", ".", "t", "s", "x">>

FileCG == <<"/", "c", "/", "g", ".", "t", "s">>

FileCH == <<"/", "c", "/", "h", ".", "t", "s">>

FileCT == <<"/", "c", "/", "t", ".", "d", ".", "t", "s">>

FileCX == <<"/", "c", "/", "x", ".", "t", "s">>

FileYA == <<"/", "y", "/", "a", ".", "t", "s">>

FileYAK == <<"/", "y", "/", "a", "/", "k", ".", "t", "s">>

FileYASN == <<"/", "y", "/", "a", "/", "s", "/", "n", ".", "t", "s">>

FileYASK == <<"/", "y", "/", "a", "/", "s", "k", "/", "k", ".", "t", "s">>

DiskFiles ==
  { FileRAF, FileRABF, FileRAX, FileCG, FileCH, FileCT, FileCX,
    FileYA, FileYAK, FileYASN, FileYASK }

\* The input paths a command line may name: directories and files.
RootArgs ==
  { <<"/", "r">>, <<"/", "r", "/", "a">>, <<"/", "r", "/", "a", "/", "b">>,
    <<"c">>, FileRAF, FileRAX, FileCG,
    <<"/", "y">>, <<"/", "y", "/", "a">>, FileYA }

\* the -o option
OutputArg == <<"/", "o">>

\* The string literals below the nodes that carry a module specifier: the
\* syntactic form of the node, the text of the literal, and whether the literal
\* is the specifier itself or sits inside a specifier expression that is not a
\* literal (a conditional, a concatenation).
Literal(form, text, nested) == [form |-> form, text |-> text, nested |-> nested]

Import(form, text) == Literal(form, text, FALSE)

SourceImports(file) ==
  IF file = FileCG
  THEN << Import("import", <<".", ".", "/", "r", "/", "a", "/", "f">>),
          Import("importEquals", <<".", ".", "/", "r", "/", "a">>),
          Import("import", <<"h">>),
          Import("dynamicImport", <<".", "/", "h">>),
          Import("import", <<".", ".", "/", "v", "/", "x", "/", "m">>),
          Import("import", <<".", ".", "/", "v", "v", "/", "n">>),
          Import("import", <<".", ".", "/", "v">>),
          Import("exportFrom", <<".", "/", "h">>),
          Import("exportFrom", <<".", ".", "/", "r", "/", "a", "/", "f">>),
          Literal("dynamicImport", <<".", ".", "/", "r", "/", "a", "/", "f">>, TRUE),
          Literal("dynamicImport", <<"h">>, TRUE) >>
  ELSE IF file = FileRAF
  THEN << Import("import", <<".", "/", "b", "/", "f">>),
          Import("import", <<".", ".", "/", ".", ".", "/", "c", "/", "g">>) >>
  ELSE IF file = FileRABF
  THEN << Import("import", <<".", ".", "/", "f">>),
          Import("import", <<"v", "/", "x">>) >>
  ELSE IF file = FileYASN
  THEN << Import("import", <<".", ".", "/", ".", ".", "/", "a">>),
          Import("import", <<".", ".", "/", "k">>),
          Import("import", <<".", ".", "/", "s", "k", "/", "k">>),
          Import("import", <<".", ".", "/", ".", ".", "/", ".", ".", "/", "c", "/", "q">>) >>
  ELSE <<>>

\* The path maps a command line may give (options.pathMap, from -p).
NoPathMap == <<>>

PathMapVW ==
  (<<"/", "v">> :> <<"/", "w">>) @@ (<<"/", "v", "/", "x">> :> <<"/", "y">>)

PathMapVO == (<<"v">> :> <<"/", "o">>)

PathMapVZ ==
  (<<"/", "v">> :> <<"/", "o", "/", ".", "z">>) @@ (<<"/", "y">> :> <<"/", "w">>)

PathMapArgs == {NoPathMap, PathMapVW, PathMapVO, PathMapVZ}

\* The diagnostics the engine may report.
DiagType == [category |-> "Error", code |-> 2322, message |-> {}]

DiagImplicitAny == [category |-> "Error", code |-> 7006, message |-> {"implicitly", "'any'"}]

DiagNeverRead == [category |-> "Error", code |-> 6133, message |-> {"never read"}]

DiagReturns == [category |-> "Error", code |-> 7030, message |-> {}]

\* The -W options a command line may give.
WarningArgs ==
  { <<"error">>, <<"implicit-any">>, <<"error", "=", "implicit-any">>,
    <<"strict">>, <<"error", "=", "implicit-returns">>,
    <<"implicit-any", "=", "error">>, <<"all">> }

\* the compiler options that the engine's outputs depend on, as main sets them
\* from -d and -m
EmitOptions(d, m) == [declaration |-> d, declarationMap |-> d /\ m, sourceMap |-> m]

\* What compile is called with, apart from the paths and the path map: the
\* engine's diagnostics, main's warnings table and werror, the emit options.
Scenario(diags, warns, werr, d, m) ==
  [diagnostics |-> diags, warnings |-> warns, werror |-> werr, options |-> EmitOptions(d, m)]

Scenarios ==
  { Scenario(<<>>, <<>>, FALSE, FALSE, FALSE),
    Scenario(<<>>, <<>>, FALSE, TRUE, FALSE),
    Scenario(<<DiagType>>, <<>>, FALSE, FALSE, FALSE),
    Scenario(<<DiagImplicitAny>>, ("implicit-any" :> FALSE), FALSE, TRUE, TRUE),
    Scenario(<<DiagImplicitAny>>, ("implicit-any" :> FALSE), TRUE, TRUE, FALSE) }

(***************************************************************************)
(* State                                                                   *)
(***************************************************************************)
VARIABLES
  pc,            \* where the run is: main, compile, plan, check, mkdir, emit, returned, threw
  argsWarning,   \* main: args.warning
  configOptions, \* main: the options of tsconfig.json
  argPaths,      \* compile's paths as given
  argPathMap,    \* options.pathMap as given
  argOutDir,     \* options.outDir as given
  options,       \* the compiler options the engine's outputs depend on
  diagnostics,   \* what ts.getPreEmitDiagnostics will return
  warnings,      \* compile's warnings
  werror,        \* compile's werror
  paths,         \* the resolved paths
  outputDir,     \* the resolved options.outDir
  pathMap,       \* the Map of path prefixes, in its iteration order
  files,         \* input file -> output directory
  fileKeys,      \* the keys of files in insertion order
  directories,   \* input directory -> output directory
  basenames,     \* output directory -> the basenames taken in it
  planIdx,       \* the index in paths of the root planned next
  reached,       \* history: the files the planning loop has taken, in order, each with
                 \* the output directory computed for it and the index of its root
  rootKinds,     \* history: isDirectory of each root planned
  engineInvoked, \* ts.createProgram has been called
  count,         \* processDiagnostics' result
  sortedDirs,    \* the sorted output directories
  mkIdx,         \* the index in sortedDirs of the directory looked at next
  mkdirCalls,    \* the fs.mkdir calls made, in order
  emitIdx,       \* the index in fileKeys of the file emitted next
  written,       \* the fs.writeFile calls made, in order
  emitted,       \* file -> its module specifiers as emitted
  error          \* the Error thrown, <<>> when none

vars ==
  << pc, argsWarning, configOptions, argPaths, argPathMap, argOutDir, options,
     diagnostics, warnings, werror, paths, outputDir, pathMap, files, fileKeys,
     directories, basenames, planIdx, reached, rootKinds, engineInvoked, count,
     sortedDirs, mkIdx, mkdirCalls, emitIdx, written, emitted, error >>

inputVars == << argsWarning, configOptions, argPaths, argPathMap, argOutDir, options, diagnostics >>

planVars == << files, fileKeys, directories, basenames, planIdx, reached, rootKinds >>

outputVars == << sortedDirs, mkIdx, mkdirCalls, emitIdx, written, emitted >>

\* the state of compile's locals before its first statement
Fresh ==
  /\ paths = <<>>
  /\ outputDir = <<>>
  /\ pathMap = <<>>
  /\ files = <<>>
  /\ fileKeys = <<>>
  /\ directories = <<>>
  /\ basenames = <<>>
  /\ planIdx = 1
  /\ reached = <<>>
  /\ rootKinds = <<>>
  /\ engineInvoked = FALSE
  /\ count = [warnings |-> 0, errors |-> 0]
  /\ sortedDirs = <<>>
  /\ mkIdx = 1
  /\ mkdirCalls = <<>>
  /\ emitIdx = 1
  /\ written = <<>>
  /\ emitted = <<>>
  /\ error = <<>>

\* a call of compile
Init ==
  /\ pc = "compile"
  /\ argsWarning = <<>>
  /\ configOptions = {}
  /\ argPaths \in SeqsUpTo(RootArgs, MaxRoots)
  /\ argPathMap \in PathMapArgs
  /\ argOutDir = OutputArg
  /\ \E sc \in Scenarios :
       /\ options = sc.options
       /\ diagnostics = sc.diagnostics
       /\ warnings = sc.warnings
       /\ werror = sc.werror
  /\ Fresh

\* a run of main on a command line with input paths
InitMain ==
  /\ pc = "main"
  /\ argsWarning \in {<<>>} \cup SeqsUpTo(WarningArgs, MaxWarnArgs)
  /\ configOptions \in {{}, {"noImplicitAny", "module"}}
  /\ argPaths = << <<"c">> >>
  /\ argPathMap = NoPathMap
  /\ argOutDir = OutputArg
  /\ options = EmitOptions(FALSE, FALSE)
  /\ diagnostics \in {<<>>, <<DiagImplicitAny>>, <<DiagNeverRead>>, <<DiagReturns, DiagType>>}
  /\ warnings = <<>>
  /\ werror = FALSE
  /\ Fresh

(***************************************************************************)
(* main: the -W options                                                    *)
(***************************************************************************)

\* main, from the parsed arguments to its call of compile
Main ==
  /\ pc = "main"
  /\ LET st == MainWarnings(argsWarning, configOptions)
     IN  IF st.error # <<>>
         THEN /\ error' = st.error
              /\ pc' = "threw"
              /\ UNCHANGED << warnings, werror >>
         ELSE /\ warnings' = st.warnings
              /\ werror' = MainWerror(argsWarning)
              /\ pc' = "compile"
              /\ error' = error
  /\ UNCHANGED << inputVars, paths, outputDir, pathMap, planVars, engineInvoked,
                  count, outputVars >>

(***************************************************************************)
(* compile: resolving the arguments                                        *)
(***************************************************************************)

\* the least string of a non-empty set
MinStr(S) == CHOOSE x \in S : \A y \in S : x = y \/ StrLess(x, y)

\* Object.keys(obj).sort() of an object whose keys are strings
RECURSIVE SortedKeys(_)
SortedKeys(S) ==
  IF S = {} THEN <<>> ELSE <<MinStr(S)>> \o SortedKeys(S \ {MinStr(S)})

\* options.pathMap with both sides resolved
ResolvedPathMap(raw) ==
  [from \in {Resolve(k) : k \in DOMAIN raw}
     |-> Resolve(raw[CHOOSE k \in DOMAIN raw : Resolve(k) = from])]

\* the Map of path prefixes: the resolved entries in descending order of from
PathMapTable(raw) ==
  LET temp == ResolvedPathMap(raw)
      order == Reverse(SortedKeys(DOMAIN temp))
  IN  [n \in 1..Len(order) |-> <<order[n], temp[order[n]]>>]

CompileEntry ==
  /\ pc = "compile"
  /\ paths' = [n \in 1..Len(argPaths) |-> Resolve(argPaths[n])]
  /\ outputDir' = Resolve(argOutDir)
  /\ pathMap' = PathMapTable(argPathMap)
  /\ pc' = "plan"
  /\ UNCHANGED << inputVars, warnings, werror, planVars, engineInvoked, count,
                  outputVars, error >>

(***************************************************************************)
(* compile: planning                                                       *)
(***************************************************************************)

DotTs == <<".", "t", "s">>

DotTsx == <<".", "t", "s", "x">>

\* the extensions of a file root: [".ts", "tsx"]
FileRootExtensions == {DotTs, <<"t", "s", "x">>}

IsFileRoot(p) == Extname(p) \in FileRootExtensions

\* glob(`${p}/**/*.{ts,tsx}`): the files on disk under p, normalized
Glob(p) ==
  SortedKeys({Normalize(f) : f \in {g \in DiskFiles :
                 /\ StartsWith(g, p \o <<PathSep>>)
                 /\ (EndsWith(g, DotTs) \/ EndsWith(g, DotTsx))}})

\* the duplicate test looking the basename up instead of the path
DuplicateByBasename(f, fs) == Basename(f) \in DOMAIN fs

\* f in files
IsDuplicate(f, fs) == f \in DOMAIN fs

\* the collision test looking the output path up instead of the basename
OverwriteByPath(bn, outDir, basename) == Join(outDir, basename) \in bn[outDir]

\* basenames[outDir].has(basename)
WillOverwrite(bn, outDir, basename) == basename \in bn[outDir]

\* the relative path taken from the directory to the root
OutDirFromDir(outDir, rootDir, dir) == Join(outDir, Relative(dir, rootDir))

\* the output directory of a file in directory dir reached from root rootDir
OutDirFor(outDir, rootDir, dir) == Join(outDir, Relative(rootDir, dir))

\* one iteration of the loop over pathFiles
PlanFile(st, f, rootDir, isDirectory) ==
  IF IsDuplicate(f, st.files)
  THEN [st EXCEPT !.error = <<"Duplicate file", f>>,
                  !.reached = Append(@, [file |-> f, outDir |-> Undefined, root |-> planIdx])]
  ELSE LET dir == Dirname(f)
           basename == Basename(f)
           outDir == OutDirFor(outputDir, rootDir, dir)
           bn == IF outDir \in DOMAIN st.basenames THEN st.basenames
                 ELSE Store(st.basenames, outDir, {})
           here == [file |-> f, outDir |-> outDir, root |-> planIdx]
       IN  IF WillOverwrite(bn, outDir, basename)
           THEN [st EXCEPT !.error = <<"will overwrite another file", f>>,
                           !.basenames = bn,
                           !.reached = Append(@, here)]
           ELSE [st EXCEPT !.files = Store(@, f, outDir),
                           !.fileKeys = IF f \in DOMAIN st.files THEN @ ELSE Append(@, f),
                           !.basenames = Store(bn, outDir, bn[outDir] \cup {basename}),
                           !.directories = IF isDirectory THEN Store(@, dir, outDir) ELSE @,
                           !.reached = Append(@, here)]

RECURSIVE PlanFiles(_, _, _, _)
PlanFiles(st, pathFiles, rootDir, isDirectory) ==
  IF pathFiles = <<>> \/ st.error # <<>> THEN st
  ELSE PlanFiles(PlanFile(st, pathFiles[1], rootDir, isDirectory),
                 Tail(pathFiles), rootDir, isDirectory)

\* one iteration of the loop over paths
PlanPath ==
  /\ pc = "plan"
  /\ planIdx <= Len(paths)
  /\ LET p == paths[planIdx]
         isFile == IsFileRoot(p)
         rootDir == IF isFile THEN Dirname(p) ELSE p
         pathFiles == IF isFile THEN <<p>> ELSE Glob(p)
         st == PlanFiles([files |-> files, fileKeys |-> fileKeys,
                          directories |-> directories, basenames |-> basenames,
                          reached |-> reached, error |-> <<>>],
                         pathFiles, rootDir, ~isFile)
     IN  /\ files' = st.files
         /\ fileKeys' = st.fileKeys
         /\ directories' = st.directories
         /\ basenames' = st.basenames
         /\ reached' = st.reached
         /\ error' = st.error
         /\ rootKinds' = Append(rootKinds, ~isFile)
         /\ planIdx' = IF st.error # <<>> THEN planIdx ELSE planIdx + 1
         /\ pc' = IF st.error # <<>> THEN "threw"
                  ELSE IF planIdx = Len(paths) THEN "check" ELSE "plan"
  /\ UNCHANGED << inputVars, warnings, werror, paths, outputDir, pathMap,
                  engineInvoked, count, outputVars >>

(***************************************************************************)
(* compile: the diagnostics gate and the output directories                *)
(***************************************************************************)

\* the gate testing the count of warnings instead of the count of errors
ErrorsByWarnings(c) == c.warnings # 0

\* if (count.errors) return count
HasErrors(c) == c.errors # 0

\* the output directory as it is, without the separator after it
WithoutSep(d) == d

\* an output directory as the sort and the skip test see it
WithSep(d) == d \o <<PathSep>>

\* createProgram, getPreEmitDiagnostics, processDiagnostics, and the sort
CheckProgram ==
  /\ pc = "check"
  /\ engineInvoked' = TRUE
  /\ count' = processDiagnostics(diagnostics, warnings, werror)
  /\ IF HasErrors(count')
     THEN /\ pc' = "returned"
          /\ sortedDirs' = sortedDirs
     ELSE /\ sortedDirs' = Sort([n \in 1..Len(fileKeys) |-> WithSep(files[fileKeys[n]])])
          /\ pc' = IF sortedDirs' = <<>> THEN "emit" ELSE "mkdir"
  /\ UNCHANGED << inputVars, warnings, werror, paths, outputDir, pathMap, planVars,
                  mkIdx, mkdirCalls, emitIdx, written, emitted, error >>

\* the skip test with the two directories of startsWith exchanged
SkipWhenNextIsPrefix(dirs, n) == n < Len(dirs) /\ StartsWith(dirs[n], dirs[n + 1])

\* i < sortedDirs.length - 1 && sortedDirs[i + 1].startsWith(dir)
SkipCreation(dirs, n) == n < Len(dirs) /\ StartsWith(dirs[n + 1], dirs[n])

\* one iteration of the loop over sortedDirs
Materialize ==
  /\ pc = "mkdir"
  /\ mkIdx <= Len(sortedDirs)
  /\ mkdirCalls' = IF SkipCreation(sortedDirs, mkIdx) THEN mkdirCalls
                   ELSE Append(mkdirCalls, sortedDirs[mkIdx])
  /\ mkIdx' = mkIdx + 1
  /\ pc' = IF mkIdx = Len(sortedDirs) THEN "emit" ELSE "mkdir"
  /\ UNCHANGED << inputVars, warnings, werror, paths, outputDir, pathMap, planVars,
                  engineInvoked, count, sortedDirs, emitIdx, written, emitted, error >>

(***************************************************************************)
(* compile: the import rewriter                                            *)
(***************************************************************************)

\* the relative test taking every specifier that is not absolute
NotAbsoluteSpecifier(text) == text # <<>> /\ text[1] # "/"

\* token.text[0] == "."
IsRelativeSpecifier(text) == text # <<>> /\ text[1] = "."

\* (importee + path.sep).startsWith(from + path.sep)
PrefixMatches(importee, from) ==
  StartsWith(importee \o <<PathSep>>, from \o <<PathSep>>)

\* the loop over pathMap: the first entry whose prefix matches decides
RECURSIVE PathMapLookup(_, _, _)
PathMapLookup(table, importee, importerOutDir) ==
  IF table = <<>> THEN Undefined
  ELSE LET from == table[1][1]
           to == table[1][2]
       IN  IF PrefixMatches(importee, from)
           THEN Relative(importerOutDir, Join(to, Relative(from, importee)))
           ELSE PathMapLookup(Tail(table), importee, importerOutDir)

\* the file map asked before the directory map
FilesFirst(a, b, c) == IF Truthy(b) THEN b ELSE IF Truthy(c) THEN c ELSE a

\* a || b || c
FirstTruthy(a, b, c) == IF Truthy(a) THEN a ELSE IF Truthy(b) THEN b ELSE c

\* the path of importee's output relative to the importer's output directory
RewrittenPath(filename, text) ==
  LET dir == Dirname(filename)
      importerOutDir == Lookup(files, filename)
      importee == Join(dir, text)
      importeeOutDir == FirstTruthy(Lookup(directories, importee),
                                    Lookup(files, importee \o DotTs),
                                    Lookup(files, importee \o DotTsx))
  IN  IF Truthy(importeeOutDir)
      THEN Relative(importerOutDir,
                    IF importee \in DOMAIN directories THEN importeeOutDir
                    ELSE Join(importeeOutDir, Basename(importee)))
      ELSE PathMapLookup(pathMap, importee, importerOutDir)

\* updateImport on a string literal: the text of the literal it returns
updateImport(filename, text) ==
  IF ~IsRelativeSpecifier(text) THEN text
  ELSE LET p == RewrittenPath(filename, text)
       IN  IF ~Truthy(p) THEN text
           ELSE ReplaceAll(IF p[1] # "." THEN <<".", PathSep>> \o p ELSE p, PathSep, "/")

\* the nodes that visit hands to updateImport
VisitedForms == {"import", "importEquals", "dynamicImport"}

\* visit on a node that carries a module specifier. updateImport descends
\* from the node it is given through every child that is not a string literal,
\* so it is applied to each literal below the node, direct or nested.
visit(filename, node) ==
  IF node.form \in VisitedForms
  THEN [node EXCEPT !.text = updateImport(filename, node.text)]
  ELSE node

\* the transformer on a source file: its module specifiers after the rewrite
transformer(file) ==
  LET filename == Normalize(file)
      nodes == SourceImports(file)
  IN  [n \in 1..Len(nodes) |-> visit(filename, nodes[n])]

(***************************************************************************)
(* compile: emission                                                       *)
(***************************************************************************)

DotDTs == <<".", "d", ".", "t", "s">>

DotJs == <<".", "j", "s">>

DotMap == <<".", "m", "a", "p">>

\* the extensions of the outputs that program.emit hands to the callback
EngineOutputs(opts) ==
  {DotJs} \cup (IF opts.sourceMap THEN {DotJs \o DotMap} ELSE {})
          \cup (IF opts.declaration THEN {DotDTs} ELSE {})
          \cup (IF opts.declarationMap THEN {DotDTs \o DotMap} ELSE {})

\* the extensions the emit callback looks for, in its order
OutputExtensions == <<DotJs, DotJs \o DotMap, DotDTs, DotDTs \o DotMap>>

\* the key of outputs under which the callback stores an emitted file
RECURSIVE FirstExtension(_, _)
FirstExtension(filename, n) ==
  IF n > Len(OutputExtensions) THEN Undefined
  ELSE IF EndsWith(filename, OutputExtensions[n]) THEN OutputExtensions[n]
  ELSE FirstExtension(filename, n + 1)

CapturedAs(filename) == FirstExtension(filename, 1)

\* a loop that skips no file
NeverDeclarationFile(file) == FALSE

\* the test that skips a file in the emission loop
IsDeclarationFile(file) == EndsWith(file, DotDTs)

\* the fs.writeFile calls for one file, in order
WritesFor(file, opts) ==
  LET outDir == files[file]
      baseOutFile == Join(outDir, BasenameExt(file, Extname(file)))
      jsFile == baseOutFile \o DotJs
      jsMapFile == jsFile \o DotMap
      declarationFile == baseOutFile \o DotDTs
      declarationMapFile == declarationFile \o DotMap
      outputs == {CapturedAs(baseOutFile \o e) : e \in EngineOutputs(opts)}
      W(path) == [path |-> path, source |-> file]
  IN  <<W(jsFile)>>
      \o (IF DotJs \o DotMap \in outputs THEN <<W(jsMapFile)>> ELSE <<>>)
      \o (IF DotDTs \in outputs THEN <<W(declarationFile)>> ELSE <<>>)
      \o (IF DotDTs \o DotMap \in outputs THEN <<W(declarationMapFile)>> ELSE <<>>)

\* one iteration of the loop over files
EmitFile ==
  /\ pc = "emit"
  /\ emitIdx <= Len(fileKeys)
  /\ LET file == fileKeys[emitIdx]
     IN  IF IsDeclarationFile(file)
         THEN UNCHANGED << written, emitted >>
         ELSE /\ emitted' = Store(emitted, file, transformer(file))
              /\ written' = written \o WritesFor(file, options)
  /\ emitIdx' = emitIdx + 1
  /\ UNCHANGED << pc, inputVars, warnings, werror, paths, outputDir, pathMap, planVars,
                  engineInvoked, count, sortedDirs, mkIdx, mkdirCalls, error >>

\* return count
Return ==
  /\ pc = "emit"
  /\ emitIdx > Len(fileKeys)
  /\ pc' = "returned"
  /\ UNCHANGED << inputVars, warnings, werror, paths, outputDir, pathMap, planVars,
                  engineInvoked, count, outputVars, error >>

Next ==
  \/ CompileEntry
  \/ PlanPath
  \/ CheckProgram
  \/ Materialize
  \/ EmitFile
  \/ Return

Spec == Init /\ [][Next]_vars

NextMain ==
  \/ Main
  \/ Next

SpecMain == InitMain /\ [][NextMain]_vars

(***************************************************************************)
(* Properties                                                              *)
(***************************************************************************)

\* nothing has been done outside memory: no engine, no directory, no file
NothingDone == ~engineInvoked /\ mkdirCalls = <<>> /\ written = <<>>

\* the planning loop takes, as its n-th file, a file it has taken before
ReachedAgain(n) == \E m \in 1..(n - 1) : reached[m].file = reached[n].file

\* the n-th file taken lands where a different file taken before it landed
Collides(n) ==
  \E m \in 1..(n - 1) :
    /\ reached[m].file # reached[n].file
    /\ reached[n].outDir # Undefined
    /\ reached[m].outDir = reached[n].outDir
    /\ Basename(reached[m].file) = Basename(reached[n].file)

\* C1: when the planning loop reaches a source file a second time, planning
\* stops right there with the "Duplicate file" error for that file, and the
\* engine has not been invoked, no directory created and no file written.
C1_DuplicateFails ==
  \A n \in 1..Len(reached) :
    ReachedAgain(n) =>
      /\ n = Len(reached)
      /\ pc = "threw"
      /\ error = <<"Duplicate file", reached[n].file>>
      /\ NothingDone

C1_Witness ==
  /\ pc = "threw"
  /\ Len(reached) >= 2
  /\ ReachedAgain(Len(reached))
  /\ rootKinds = <<TRUE, FALSE>>

\* C2: when the planning loop reaches a file whose output directory and
\* basename are those of a different file planned before, planning stops
\* right there with the "will overwrite another file" error for that file,
\* and the engine has not been invoked, no directory created, no file written.
C2_CollisionFails ==
  \A n \in 1..Len(reached) :
    Collides(n) =>
      /\ n = Len(reached)
      /\ pc = "threw"
      /\ error = <<"will overwrite another file", reached[n].file>>
      /\ NothingDone

C2_Witness ==
  /\ pc = "threw"
  /\ Len(reached) >= 2
  /\ Collides(Len(reached))
  /\ ~ReachedAgain(Len(reached))

\* some diagnostic of the run is classified as an error
SomeDiagnosticIsError ==
  \E n \in 1..Len(diagnostics) : IsError(diagnostics[n], warnings, werror)

\* C3: a directory is created or a file written only after every input root
\* has been planned without error and the diagnostics were classified with no
\* error; and a run with a diagnostic classified as an error returns having
\* created no directory and written no file.
C3_NoOutputBeforeGate ==
  /\ (mkdirCalls # <<>> \/ written # <<>>) =>
       /\ Len(rootKinds) = Len(argPaths)
       /\ planIdx = Len(argPaths) + 1
       /\ error = <<>>
       /\ engineInvoked
       /\ ~SomeDiagnosticIsError
  /\ (pc = "returned" /\ SomeDiagnosticIsError) =>
       /\ mkdirCalls = <<>>
       /\ written = <<>>
       /\ count.errors > 0

C3_Witness ==
  /\ pc = "returned"
  /\ SomeDiagnosticIsError
  /\ engineInvoked
  /\ files # <<>>
  /\ mkdirCalls = <<>>
  /\ written = <<>>

\* the recognized source extensions: those the directory expansion matches
IsSourceFile(p) == EndsWith(p, DotTs) \/ EndsWith(p, DotTsx)

\* the source files of a root, and where each is to land
SourceFilesOf(root) ==
  IF IsSourceFile(root) THEN {root}
  ELSE {f \in DiskFiles : StartsWith(f, root \o <<PathSep>>) /\ IsSourceFile(f)}

LandingDir(root, f) ==
  IF IsSourceFile(root) THEN outputDir
  ELSE Join(outputDir, Relative(root, Dirname(f)))

\* the source files of the input roots, each with the index of its root
RootFiles ==
  {x \in (1..Len(paths)) \X (DiskFiles \cup {paths[m] : m \in 1..Len(paths)}) :
     x[2] \in SourceFilesOf(paths[x[1]])}

InputsAreDisjoint ==
  \A x, y \in RootFiles :
    x # y =>
      /\ x[2] # y[2]
      /\ ~ /\ LandingDir(paths[x[1]], x[2]) = LandingDir(paths[y[1]], y[2])
           /\ Basename(x[2]) = Basename(y[2])

PlanningOver == pc \in {"check", "mkdir", "emit", "returned", "threw"}

\* C4: for input roots with no duplicate source path and no basename
\* collision, planning succeeds and the file map has exactly one entry per
\* source file of the roots, with the output directory the claim gives.
C4_PlanCoversSources ==
  (PlanningOver /\ InputsAreDisjoint) =>
    /\ pc # "threw"
    /\ DOMAIN files = {x[2] : x \in RootFiles}
    /\ \A x \in RootFiles : Lookup(files, x[2]) = LandingDir(paths[x[1]], x[2])

\* the files the planning loop took for the n-th root
TakenFor(n) == {reached[k].file : k \in {j \in 1..Len(reached) : reached[j].root = n}}

\* C5: a path with extension .ts or .tsx is a File root and contributes that
\* one file, with output directory outputRoot; any other path is a Directory
\* root.
C5_RootClassification ==
  \A n \in 1..Len(rootKinds) :
    IF Extname(paths[n]) \in {DotTs, DotTsx}
    THEN /\ rootKinds[n] = FALSE
         /\ TakenFor(n) = {paths[n]}
         /\ (paths[n] \in DOMAIN files /\ n < planIdx) => files[paths[n]] = outputDir
    ELSE rootKinds[n] = TRUE

\* the forms whose specifier the rewriter is specified to rewrite
RewrittenForms == {"import", "importEquals", "dynamicImport"}

\* the absolute path a specifier of a source file names
ImporteeOf(file, text) == Join(Dirname(file), text)

IsCompiledDirectory(importee) == importee \in DOMAIN directories

IsCompiledFile(importee) ==
  importee \o DotTs \in DOMAIN files \/ importee \o DotTsx \in DOMAIN files

\* where the target of a specifier lands in the output tree
OutputLocation(importee) ==
  IF IsCompiledDirectory(importee) THEN directories[importee]
  ELSE Join(IF importee \o DotTs \in DOMAIN files THEN files[importee \o DotTs]
            ELSE files[importee \o DotTsx],
            Basename(importee))

\* what a specifier of an emitted file denotes, resolved from the directory
\* the file is written to
Denotes(file, text) == Resolve(files[file] \o <<PathSep>> \o text)

\* the relative string-literal specifiers of the emitted files: <<file, n>>
RelativeSpecifiers ==
  UNION {{<<f, n>> : n \in {m \in 1..Len(SourceImports(f)) :
                              /\ SourceImports(f)[m].form \in RewrittenForms
                              /\ ~SourceImports(f)[m].nested
                              /\ SourceImports(f)[m].text # <<>>
                              /\ SourceImports(f)[m].text[1] = "."}}
         : f \in DOMAIN emitted}

SourceText(x) == SourceImports(x[1])[x[2]].text

EmittedText(x) == emitted[x[1]][x[2]].text

\* C6: a relative specifier whose target is in the compiled set denotes, in
\* the emitted file and resolved from the importer's output directory, the
\* target's output location, also when both land in one output directory.
C6_RoundTrip ==
  \A x \in RelativeSpecifiers :
    LET importee == ImporteeOf(x[1], SourceText(x))
    IN  (IsCompiledDirectory(importee) \/ IsCompiledFile(importee)) =>
          Denotes(x[1], EmittedText(x)) = OutputLocation(importee)

\* the entries of the path map whose fromPrefix is the target or an ancestor
\* of it, on a segment boundary
MatchingEntries(importee) ==
  {k \in 1..Len(pathMap) :
     LET from == pathMap[k][1]
     IN  \/ importee = from
         \/ /\ Len(importee) > Len(from)
            /\ SubSeq(importee, 1, Len(from)) = from
            /\ importee[Len(from) + 1] = PathSep}

LongestEntry(importee) ==
  CHOOSE k \in MatchingEntries(importee) :
    \A j \in MatchingEntries(importee) : Len(pathMap[j][1]) <= Len(pathMap[k][1])

\* toPrefix followed by what follows fromPrefix in the target
Spliced(importee, k) ==
  pathMap[k][2] \o SubSeq(importee, Len(pathMap[k][1]) + 1, Len(importee))

\* C7: a relative specifier whose target is outside the compiled set and at
\* or under the fromPrefix of a path-map entry denotes, once rewritten,
\* toPrefix joined with the rest of the target, the entry with the longest
\* fromPrefix deciding; a prefix that matches only as a substring is not used.
C7_PathMapApplied ==
  \A x \in RelativeSpecifiers :
    LET importee == ImporteeOf(x[1], SourceText(x))
    IN  ~(IsCompiledDirectory(importee) \/ IsCompiledFile(importee)) =>
          IF MatchingEntries(importee) # {}
          THEN Denotes(x[1], EmittedText(x)) = Spliced(importee, LongestEntry(importee))
          ELSE EmittedText(x) = SourceText(x)

\* C8: a specifier that does not start with "." is emitted as it was written.
C8_NonRelativeUntouched ==
  \A f \in DOMAIN emitted :
    \A n \in 1..Len(emitted[f]) :
      LET text == SourceImports(f)[n].text
      IN  (text = <<>> \/ text[1] # ".") => emitted[f][n].text = text

C8_Witness ==
  /\ FileCG \in DOMAIN emitted
  /\ FileCH \in DOMAIN files
  /\ pathMap # <<>>
  /\ emitted[FileCG][3].text = <<"h">>

\* the output directories of the plan
OutputDirs == {files[f] : f \in DOMAIN files}

\* the loop over the sorted output directories has run to its end
MaterializerDone == pc = "emit" \/ (pc = "returned" /\ mkIdx > Len(sortedDirs) /\ sortedDirs # <<>>)

\* the directory a creation call names
CallTarget(n) == StripTrailingSep(mkdirCalls[n])

\* the output directories are a directory and its subdirectory b
ParentAndChild(d) == OutputDirs = {d, d \o <<PathSep, "b">>}

\* C9 as claimed: no creation call names a directory whose parent is an
\* output directory of the batch too; for out/a and out/a/b the one call
\* is for out/a.
C9_ParentCreated ==
  /\ \A n \in 1..Len(mkdirCalls) : Dirname(CallTarget(n)) \notin OutputDirs
  /\ \A d \in OutputDirs :
       (MaterializerDone /\ ParentAndChild(d)) =>
          Len(mkdirCalls) = 1 /\ CallTarget(1) = d

\* C9 as amended: no creation call names a directory that is a proper
\* ancestor of another output directory of the batch; for out/a and
\* out/a/b the one call is for out/a/b.
C9_DeepestCreated ==
  /\ \A n \in 1..Len(mkdirCalls) :
       \A e \in OutputDirs :
         e # CallTarget(n) => ~StartsWith(e, CallTarget(n) \o <<PathSep>>)
  /\ \A d \in OutputDirs :
       (MaterializerDone /\ ParentAndChild(d)) =>
          Len(mkdirCalls) = 1 /\ CallTarget(1) = d \o <<PathSep, "b">>

C9_Witness ==
  /\ MaterializerDone
  /\ \E d \in OutputDirs : ParentAndChild(d) /\ d # outputDir
  /\ Len(mkdirCalls) = 1

\* the -W option that names a warning last on the command line
LastNaming(name) ==
  LET S == {n \in 1..Len(argsWarning) :
              argsWarning[n] \in {<<name>>, <<"error", "=", name>>}}
  IN  IF S = {} THEN <<>> ELSE argsWarning[CHOOSE n \in S : \A m \in S : m <= n]

MainDone == pc \notin {"main", "threw"}

\* C10: a warning named with -Werror=NAME is recorded as elevated and a
\* diagnostic of that category is counted as an error; a warning named with
\* -WNAME is recorded as not elevated and its diagnostics are counted as
\* warnings unless -Werror is given.
C10_WerrorEqualsElevates ==
  \A name \in DOMAIN warningToOption :
    /\ (MainDone /\ LastNaming(name) = <<"error", "=", name>>) =>
         /\ name \in DOMAIN warnings
         /\ warnings[name] = TRUE
         /\ (engineInvoked /\ Len(diagnostics) = 1
               /\ getWarning(diagnostics[1]) = OneWarning(name)) => count.errors = 1
    /\ (MainDone /\ LastNaming(name) = <<name>>) =>
         /\ name \in DOMAIN warnings
         /\ warnings[name] = FALSE
         /\ (engineInvoked /\ ~werror /\ Len(diagnostics) = 1
               /\ getWarning(diagnostics[1]) = OneWarning(name)) => count.warnings = 1

\* planning ended without an error
PlanningSucceeded == pc \in {"check", "mkdir", "emit", "returned"}

IsDeclaration(f) == EndsWith(f, <<".", "d", ".", "t", "s">>)

\* the name of a source file without its directory and its last extension
BaseName(f) ==
  LET name == Basename(f)
  IN  SubSeq(name, 1, Len(name) - Len(Extname(f)))

ArtifactExtensions ==
  { <<".", "j", "s">>, <<".", "j", "s", ".", "m", "a", "p">>,
    <<".", "d", ".", "t", "s">>, <<".", "d", ".", "t", "s", ".", "m", "a", "p">> }

\* the output paths of a compiled source file
OutputPathsOf(f) == {files[f] \o <<"/">> \o BaseName(f) \o e : e \in ArtifactExtensions}

\* C11: in a run whose planning succeeds, no output path is written on behalf
\* of two different compiled source files: the output paths (base.js,
\* base.js.map, base.d.ts, base.d.ts.map in the file's output directory) of any
\* two distinct non-declaration files of the file map are disjoint, and no two
\* writes of the run to one path come from different source files.
C11_OutputsDisjoint ==
  PlanningSucceeded =>
    /\ \A f, g \in DOMAIN files :
         (f # g /\ ~IsDeclaration(f) /\ ~IsDeclaration(g))
           => OutputPathsOf(f) \cap OutputPathsOf(g) = {}
    /\ \A i, j \in 1..Len(written) :
         written[i].path = written[j].path => written[i].source = written[j].source

\* compile returned its count with no error among the diagnostics
CompileSucceeded == pc = "returned" /\ error = <<>> /\ count.errors = 0

\* the artifacts the engine produces for a source file under the emit options
ProducedExtensions ==
  {<<".", "j", "s">>}
    \cup (IF options.sourceMap THEN {<<".", "j", "s", ".", "m", "a", "p">>} ELSE {})
    \cup (IF options.declaration THEN {<<".", "d", ".", "t", "s">>} ELSE {})
    \cup (IF options.declarationMap THEN {<<".", "d", ".", "t", "s", ".", "m", "a", "p">>} ELSE {})

CompiledSources == {f \in DOMAIN files : ~IsDeclaration(f)}

ExpectedOutputs ==
  UNION {{files[f] \o <<"/">> \o BaseName(f) \o e : e \in ProducedExtensions}
         : f \in CompiledSources}

WrittenPaths == {written[i].path : i \in 1..Len(written)}

\* C12: the files written by a successful compile are exactly, for each file
\* of the file map that is not a .d.ts file, base.js and those of base.js.map,
\* base.d.ts and base.d.ts.map that the engine produced, in that file's output
\* directory; nothing is written for a .d.ts input, and no other file is
\* written at any point of the run.
C12_WrittenExactly ==
  /\ CompileSucceeded => WrittenPaths = ExpectedOutputs
  /\ WrittenPaths \subseteq ExpectedOutputs
  /\ \A i \in 1..Len(written) : written[i].source \in CompiledSources

C12_Witness ==
  /\ CompileSucceeded
  /\ FileCT \in DOMAIN files
  /\ FileCG \in DOMAIN files
  /\ options.declaration
  /\ ~options.sourceMap
  /\ Len(written) >= 4

\* the syntactic forms that carry a module specifier
SpecifierForms == {"import", "importEquals", "dynamicImport", "exportFrom"}

\* the relative specifiers of one form in the emitted files: <<file, n>>
SpecifiersOfForm(form) ==
  UNION {{<<f, n>> : n \in {m \in 1..Len(SourceImports(f)) :
                              /\ SourceImports(f)[m].form = form
                              /\ ~SourceImports(f)[m].nested
                              /\ SourceImports(f)[m].text # <<>>
                              /\ SourceImports(f)[m].text[1] = "."}}
         : f \in DOMAIN emitted}

\* the emitted specifier denotes where its target went
ResolvesCorrectly(x) ==
  LET importee == ImporteeOf(x[1], SourceText(x))
  IN  IF IsCompiledDirectory(importee) \/ IsCompiledFile(importee)
      THEN Denotes(x[1], EmittedText(x)) = OutputLocation(importee)
      ELSE MatchingEntries(importee) # {} =>
             Denotes(x[1], EmittedText(x)) = Spliced(importee, LongestEntry(importee))

\* C13: the rewriter reaches every relative module specifier of every emitted
\* file: in each form that carries one (import declaration, import-equals
\* declaration, dynamic-import call, re-export declaration), a relative
\* specifier whose target is in the compiled set or matched by the path map
\* resolves, from the file's output directory, to where the target went.
C13_EveryFormReached ==
  \A form \in SpecifierForms :
    \A x \in SpecifiersOfForm(form) : ResolvesCorrectly(x)

\* the same for the re-export declarations alone
ReExportsReached == \A x \in SpecifiersOfForm("exportFrom") : ResolvesCorrectly(x)

\* the same for the three other forms, away from the case of C6 and C7 (the
\* target lands in the importer's own output directory)
OtherFormsReached ==
  \A form \in SpecifierForms \ {"exportFrom"} :
    \A x \in SpecifiersOfForm(form) :
      EmittedText(x) # SourceText(x) => ResolvesCorrectly(x)

\* directory a is directory d or an ancestor of it
IsProperAncestor(a, d) == a # d /\ StartsWith(d, a \o <<"/">>)

CallTargets == {CallTarget(n) : n \in 1..Len(mkdirCalls)}

\* C14: when the loop of the Directory Materializer has finished, every
\* output directory of the file map exists, being the target of a creation
\* call or an ancestor of one (creation is recursive); and the calls are
\* minimal: no directory is the target of two calls, and no target is a proper
\* ancestor of another target. This holds too when several files share an
\* output directory and when sibling names share a prefix (out/s and out/sk).
C14_CreatedAndMinimal ==
  MaterializerDone =>
    /\ \A d \in OutputDirs :
         \E t \in CallTargets : t = d \/ IsProperAncestor(d, t)
    /\ \A m, n \in 1..Len(mkdirCalls) :
         m # n => /\ CallTarget(m) # CallTarget(n)
                  /\ ~IsProperAncestor(CallTarget(m), CallTarget(n))

\* two files share an output directory, and two sibling output directories
\* have names of which one is a prefix of the other
C14_Witness ==
  /\ MaterializerDone
  /\ \E f, g \in DOMAIN files : f # g /\ files[f] = files[g]
  /\ \E d \in OutputDirs :
       /\ d \o <<"k">> \in OutputDirs
       /\ d \in CallTargets
       /\ d \o <<"k">> \in CallTargets

\* The emitted specifier x leads to dest. Where dest is the importer's own
\* output directory there is no relative path to write, and the specifier
\* stays as written (the case of C6 and C7).
LeadsTo(x, dest) ==
  IF dest = files[x[1]] THEN EmittedText(x) = SourceText(x)
  ELSE Denotes(x[1], EmittedText(x)) = dest

\* C15: the rewriter resolves a relative specifier by strict precedence: by the
\* directory map when the importee is a recorded input directory, also when
\* importee.ts or importee.tsx is a compiled file; otherwise by the file map
\* (.ts before .tsx); by the path map only when neither matches; and when
\* none matches the specifier is emitted as written, without an error.
C15_Precedence ==
  /\ \A x \in RelativeSpecifiers :
       LET importee == ImporteeOf(x[1], SourceText(x))
       IN  IF importee \in DOMAIN directories
           THEN LeadsTo(x, directories[importee])
           ELSE IF importee \o DotTs \in DOMAIN files
           THEN LeadsTo(x, Join(files[importee \o DotTs], Basename(importee)))
           ELSE IF importee \o DotTsx \in DOMAIN files
           THEN LeadsTo(x, Join(files[importee \o DotTsx], Basename(importee)))
           ELSE IF MatchingEntries(importee) # {}
           THEN LeadsTo(x, Spliced(importee, LongestEntry(importee)))
           ELSE EmittedText(x) = SourceText(x)
  /\ emitted # <<>> => error = <<>>

\* a specifier whose importee is a recorded directory, a compiled file and
\* under a path-map entry, the three leading to three different places
C15_Witness ==
  \E x \in RelativeSpecifiers :
    LET importee == ImporteeOf(x[1], SourceText(x))
        asDirectory == directories[importee]
        asFile == Join(files[importee \o DotTs], Basename(importee))
        asMapped == Spliced(importee, LongestEntry(importee))
    IN  /\ importee \in DOMAIN directories
        /\ importee \o DotTs \in DOMAIN files
        /\ MatchingEntries(importee) # {}
        /\ asDirectory # files[x[1]]
        /\ asDirectory # asFile /\ asDirectory # asMapped
        /\ Denotes(x[1], EmittedText(x)) = asDirectory
        /\ \E y \in RelativeSpecifiers :
             LET other == ImporteeOf(y[1], SourceText(y))
             IN  /\ other \notin DOMAIN directories
                 /\ other \o DotTs \notin DOMAIN files
                 /\ other \o DotTsx \notin DOMAIN files
                 /\ MatchingEntries(other) = {}
                 /\ EmittedText(y) = SourceText(y)

\* the specifiers the rewriter replaced by a string literal of its own
ProducedSpecifiers == {x \in RelativeSpecifiers : EmittedText(x) # SourceText(x)}

\* a specifier that module resolution reads as relative ("." and ".." alone
\* are read as "./" and "../"), with "/" as its only separator
IsWireRelative(text) ==
  /\ \/ StartsWith(text, <<".", "/">>) \/ StartsWith(text, <<".", ".", "/">>)
     \/ text = <<".">> \/ text = <<".", ".">>
  /\ \A n \in 1..Len(text) : text[n] = PathSep => text[n] = "/"

\* C16: every specifier the rewriter produces is relative and in wire format:
\* it begins with "./" or "../", so that it is never read as a package name,
\* also when the first segment of the relative path is a name that begins with
\* a dot; and it holds no platform separator other than "/".
C16_ProducedIsRelative ==
  \A x \in ProducedSpecifiers : IsWireRelative(EmittedText(x))

\* the same away from first segments that are names beginning with a dot
RelativeUnlessDotName ==
  \A x \in ProducedSpecifiers :
    LET text == EmittedText(x)
    IN  (Len(text) > 1 /\ text[1] = "." /\ text[2] \notin {".", "/"}) \/ IsWireRelative(text)

\* C17: when the specifier of an import form is not itself a string literal (a
\* conditional, a concatenation), the emitted file has the whole specifier
\* expression as it was written, any relative string literal nested in it
\* included; only a literal that is itself the specifier of a node is ever
\* replaced, and the rest of the syntax (the forms, the number and the order
\* of the nodes) is unchanged.
C17_NonLiteralUntouched ==
  \A f \in DOMAIN emitted :
    /\ Len(emitted[f]) = Len(SourceImports(f))
    /\ \A n \in 1..Len(emitted[f]) :
         LET before == SourceImports(f)[n]
             after == emitted[f][n]
         IN  /\ after.form = before.form
             /\ after.nested = before.nested
             /\ before.nested => after.text = before.text
             /\ after.text # before.text => ~before.nested

\* the same for everything but the text of the nested literals
StructureUnchanged ==
  \A f \in DOMAIN emitted :
    /\ Len(emitted[f]) = Len(SourceImports(f))
    /\ \A n \in 1..Len(emitted[f]) :
         /\ emitted[f][n].form = SourceImports(f)[n].form
         /\ emitted[f][n].nested = SourceImports(f)[n].nested

\* directory d is the global output directory or lies below it
InsideOutput(d) == d = outputDir \/ StartsWith(d, outputDir \o <<"/">>)

\* the files of the file map that were reached from a Directory root
FilesOfDirectoryRoots ==
  {reached[k].file : k \in {j \in 1..Len(reached) :
                              /\ rootKinds[reached[j].root]
                              /\ reached[j].file \in DOMAIN files
                              /\ reached[j].outDir = files[reached[j].file]}}

\* C18: after planning, every output directory of the file map and of the
\* directory map is the global output directory or a descendant of it, and so
\* is every directory created and the directory of every file written; and
\* for every file that came from a Directory root, the entry of the directory
\* map for the file's directory is the file's output directory.
C18_InsideOutputDir ==
  PlanningSucceeded =>
    /\ \A f \in DOMAIN files : InsideOutput(files[f])
    /\ \A d \in DOMAIN directories : InsideOutput(directories[d])
    /\ \A n \in 1..Len(mkdirCalls) : InsideOutput(CallTarget(n))
    /\ \A n \in 1..Len(written) : InsideOutput(Dirname(written[n].path))
    /\ \A f \in FilesOfDirectoryRoots :
         /\ Dirname(f) \in DOMAIN directories
         /\ directories[Dirname(f)] = files[f]

\* files of a Directory root two levels deep and a file of a File root, all
\* written
C18_Witness ==
  /\ CompileSucceeded
  /\ written # <<>>
  /\ \E f \in FilesOfDirectoryRoots :
       /\ Len(Segments(files[f])) >= Len(Segments(outputDir)) + 2
       /\ \E n \in 1..Len(written) : written[n].source = f
  /\ \E g \in DOMAIN files : g \notin FilesOfDirectoryRoots

====
